---- MODULE Spec2Model ----
(***************************************************************************)
(* Model of ibis/sql/postgres/udf/api.py: the type catalog, the node       *)
(* factory (create_udf_node), the registration facade (existing_udf,       *)
(* func_to_udf) and the source transformer (LineNums / remove_decorators). *)
(*                                                                         *)
(* A source text is a sequence of lines; a line is a record giving its     *)
(* lexical kind, its indentation and the names written on it.  The syntax  *)
(* tree is computed from the lines (ast_parse), the visitor from the tree. *)
(***************************************************************************)
EXTENDS Integers, Sequences, FiniteSets, TLC

VARIABLES
    pytype_sql,        \* host type -> SQL type name
    pytype_ibistype,   \* host type -> abstract type
    ibistype_pytype,   \* abstract type -> host type (inverted dict)
    ibistype_sqltype,  \* abstract type -> SQL type name
    udf_name_cache,    \* logical name -> next counter value (_udf_name_cache)
    nodes,             \* node kinds created so far, in creation order
    registry,          \* compiler translation table: node kind -> renderer
    lastCall           \* the last API call: arguments, outcome and the
                       \* calls it made on its collaborators, in order

vars == <<pytype_sql, pytype_ibistype, ibistype_pytype, ibistype_sqltype,
          udf_name_cache, nodes, registry, lastCall>>

catalog == <<pytype_sql, pytype_ibistype, ibistype_pytype, ibistype_sqltype>>

None == "None"
NoLine == 0

(***************************************************************************)
(* Bounds                                                                  *)
(***************************************************************************)
MaxRegs == 2
MaxDecorators == 2
MaxParams == 2
MaxBody == 2

(***************************************************************************)
(* Type catalog                                                            *)
(***************************************************************************)
HostTypes == {"bool", "int", "float", "Decimal", "bytes", "str"}

\* the fixed enumeration of abstract types: boolean, integer, float,
\* decimal, bytes, string
AbstractTypes == {"Boolean", "Int32", "Float", "Decimal", "Binary", "String"}

sql_default_type == "VARCHAR"

pytype_sql_literal ==
    [h \in HostTypes |->
        CASE h = "bool"    -> "BOOLEAN"
          [] h = "int"     -> "INTEGER"
          [] h = "float"   -> "DOUBLE"
          [] h = "Decimal" -> "NUMERIC"
          [] h = "bytes"   -> "BYTEA"
          [] h = "str"     -> sql_default_type]

pytype_ibistype_literal ==
    [h \in HostTypes |->
        CASE h = "bool"    -> "Boolean"
          [] h = "int"     -> "Int32"
          [] h = "float"   -> "Float"
          [] h = "Decimal" -> "Float"
          [] h = "bytes"   -> "Binary"
          [] h = "str"     -> "String"]

\* Iteration orders of the pytype_ibistype literal: insertion order, and an
\* order in which Decimal is met before float (dicts of an interpreter that
\* does not keep insertion order).
DictOrders ==
    { <<"bool", "int", "float", "Decimal", "bytes", "str">>,
      <<"bool", "int", "Decimal", "float", "bytes", "str">> }

\* {v: k for k, v in d.items()}: a later item overwrites an earlier one
RECURSIVE InvertDict(_, _, _)
InvertDict(d, order, acc) ==
    IF order = <<>> THEN acc
    ELSE LET k == Head(order)
             v == d[k]
             acc2 == [x \in (DOMAIN acc) \cup {v} |->
                         IF x = v THEN k ELSE acc[x]]
         IN InvertDict(d, Tail(order), acc2)

EmptyDict == [x \in {} |-> None]

\* {ibistype: pytype_sql[pytype] for ibistype, pytype in ibistype_pytype.items()}
BuildSqlTypes(inv, sql) == [t \in DOMAIN inv |-> sql[inv[t]]]

(***************************************************************************)
(* Source texts                                                            *)
(***************************************************************************)
LineKinds == {"comment", "deco", "decoOpen", "decoArg", "decoClose",
              "def", "defOpen", "param", "defClose", "body"}

\* one line of text: kind, indentation, the function name on a def line,
\* the parameters written on the line, whether it carries `-> T`
Line(k, ind, id, ps, r) ==
    [kind |-> k, indent |-> ind, ident |-> id, params |-> ps, ret |-> r]

DecoLines(n, ind) ==
    IF n = 1 THEN << Line("deco", ind, "", <<>>, FALSE) >>
    ELSE << Line("decoOpen", ind, "", <<>>, FALSE) >>
         \o [i \in 1..(n - 2) |-> Line("decoArg", ind + 1, "", <<>>, FALSE)]
         \o << Line("decoClose", ind, "", <<>>, FALSE) >>

RECURSIVE AllDecoLines(_, _)
AllDecoLines(ds, ind) ==
    IF ds = <<>> THEN <<>>
    ELSE DecoLines(Head(ds), ind) \o AllDecoLines(Tail(ds), ind)

SigLines(f) ==
    IF ~f.multiline
    THEN << Line("def", f.indent, f.name, f.params, f.ret) >>
    ELSE << Line("defOpen", f.indent, f.name, <<>>, FALSE) >>
         \o [i \in 1..Len(f.params) |->
                Line("param", f.indent + 1, "", <<f.params[i]>>, FALSE)]
         \o << Line("defClose", f.indent, "", <<>>, f.ret) >>

BodyLines(f) ==
    [i \in 1..f.nbody |-> Line("body", f.indent + 1, "", <<>>, FALSE)]

\* inspect.getsource(python_func): the decorators, the signature, the body
getsource(f) == AllDecoLines(f.decos, f.indent) \o SigLines(f) \o BodyLines(f)

\* python_func.__name__ and inspect.signature(python_func).parameters.keys()
func_name(f) == f.name
signature_parameters(f) == f.params

SeqMin(s) == CHOOSE m \in {s[i] : i \in DOMAIN s} :
                \A i \in DOMAIN s : m <= s[i]

\* textwrap.dedent: remove the indentation common to all lines
dedent(lines) ==
    IF lines = <<>> THEN lines
    ELSE LET m == SeqMin([i \in DOMAIN lines |-> lines[i].indent])
         IN [i \in DOMAIN lines |->
                [lines[i] EXCEPT !.indent = lines[i].indent - m]]

(***************************************************************************)
(* ast.parse on a text holding one function definition                     *)
(***************************************************************************)
DefLine(lines) ==
    CHOOSE d \in DOMAIN lines :
        /\ lines[d].kind \in {"def", "defOpen"}
        /\ \A j \in 1..(d - 1) : lines[j].kind \notin {"def", "defOpen"}

SigEnd(lines) ==
    LET d == DefLine(lines)
    IN IF lines[d].kind = "def" THEN d
       ELSE CHOOSE e \in d..Len(lines) :
               /\ lines[e].kind = "defClose"
               /\ \A j \in d..(e - 1) : lines[j].kind # "defClose"

\* sequence of the members of a set of line numbers, ascending
RECURSIVE Ascending(_)
Ascending(S) ==
    IF S = {} THEN <<>>
    ELSE LET m == CHOOSE x \in S : \A y \in S : x <= y
         IN <<m>> \o Ascending(S \ {m})

\* the FunctionDef node: line numbers (1-based) of its children
ast_parse(lines) ==
    LET d == DefLine(lines)
        e == SigEnd(lines)
        decoLns == Ascending({i \in 1..(d - 1) :
                                 lines[i].kind \in {"deco", "decoOpen"}})
        argLns == IF lines[d].kind = "def"
                  THEN [i \in 1..Len(lines[d].params) |-> d]
                  ELSE Ascending({i \in d..e : lines[i].kind = "param"})
    IN [ name           |-> lines[d].ident,
         lineno         |-> d,
         args           |-> argLns,
         body           |-> Ascending({i \in (e + 1)..Len(lines) :
                                          lines[i].kind = "body"}),
         decorator_list |-> decoLns,
         returns        |-> IF lines[e].ret THEN e ELSE NoLine ]

(***************************************************************************)
(* LineNums                                                                *)
(***************************************************************************)
LineNums_init == [first_non_decorator_line |-> NoLine, decorator_lines |-> <<>>]

\* LineNums.generic_visit on a node that has a lineno
generic_visit(self, lineno) ==
    IF self.first_non_decorator_line = NoLine
    THEN [self EXCEPT !.first_non_decorator_line = lineno]
    ELSE [self EXCEPT !.first_non_decorator_line =
             IF lineno < self.first_non_decorator_line
             THEN lineno ELSE self.first_non_decorator_line]

RECURSIVE visit_all(_, _)
visit_all(self, linenos) ==
    IF linenos = <<>> THEN self
    ELSE visit_all(generic_visit(self, Head(linenos)), Tail(linenos))

\* Only the fields of the FunctionDef that are single nodes are walked:
\* `args` (whose arg children carry line numbers) and `returns`.  `name` is
\* a string, `body` and `decorator_list` are lists.
visit_FunctionDef(self, node) ==
    LET s1 == [self EXCEPT !.decorator_lines = @ \o node.decorator_list]
        s2 == visit_all(s1, node.args)
    IN IF node.returns # NoLine THEN generic_visit(s2, node.returns) ELSE s2

Returned(v) == [raised |-> "", value |-> v]
Raised(e) == [raised |-> e, value |-> None]

remove_decorators(funcdef_source) ==
    LET func_ast == ast_parse(funcdef_source)
        visitor == visit_FunctionDef(LineNums_init, func_ast)
        lines == funcdef_source
    IN IF visitor.first_non_decorator_line = NoLine
       THEN Raised("TypeError")
       ELSE LET first_nondecorator == visitor.first_non_decorator_line - 1
            IN Returned(SubSeq(lines, first_nondecorator + 1, Len(lines)))

(***************************************************************************)
(* Node factory                                                            *)
(***************************************************************************)
\* logical names of UDFs
UdfNames == {"f", "f_0"}

\* '{}_{:d}'.format(name, definition)
external_name(name, definition) == name \o "_" \o ToString(definition)

\* The registration state threaded through one API call: the name cache,
\* the node kinds, the translation table and the collaborator calls made.
RegState(cache, ns, reg, evs) ==
    [udf_name_cache |-> cache, nodes |-> ns, registry |-> reg, events |-> evs]

\* create_udf_node reading the counter of `name` without consuming it
create_udf_node_reuse(st, name, fields) ==
    LET definition == st.udf_name_cache[name]
        node == [external_name |-> external_name(name, definition),
                 name |-> name,
                 fields |-> fields]
    IN [st EXCEPT !.nodes = Append(@, node),
                  !.events = Append(@, [call |-> "create_udf_node"])]

\* create_udf_node(name, fields): next(_udf_name_cache[name]) consumes the
\* counter of `name`; type(...) mints a new class, identified here by its
\* position in `nodes`.
create_udf_node(st, name, fields) ==
    LET definition == st.udf_name_cache[name]
        node == [external_name |-> external_name(name, definition),
                 name |-> name,
                 fields |-> fields]
    IN [st EXCEPT !.udf_name_cache = [@ EXCEPT ![name] = definition + 1],
                  !.nodes = Append(@, node),
                  !.events = Append(@, [call |-> "create_udf_node"])]

\* add_operation(udf_node, _translate_udf): translation table entry for the
\* node kind
add_operation(st, udf_node, translate_udf) ==
    [st EXCEPT !.registry =
                  [n \in (DOMAIN @) \cup {udf_node} |->
                      IF n = udf_node THEN translate_udf ELSE @[n]],
               !.events = Append(@, [call |-> "add_operation"])]

(***************************************************************************)
(* OrderedDict                                                             *)
(***************************************************************************)
HasKey(od, k) == \E i \in DOMAIN od : od[i][1] = k

\* od[k] = v: a known key keeps its position and takes the new value
SetItem(od, k, v) ==
    IF HasKey(od, k)
    THEN [i \in DOMAIN od |-> IF od[i][1] = k THEN <<k, v>> ELSE od[i]]
    ELSE Append(od, <<k, v>>)

\* collections.OrderedDict(pairs)
RECURSIVE OrderedDict(_, _)
OrderedDict(pairs, acc) ==
    IF pairs = <<>> THEN acc
    ELSE OrderedDict(Tail(pairs), SetItem(acc, Head(pairs)[1], Head(pairs)[2]))

MinLen(a, b) == IF Len(a) < Len(b) THEN Len(a) ELSE Len(b)

\* zip(a, b)
zip(a, b) == [i \in 1..MinLen(a, b) |-> <<a[i], b[i]>>]

(***************************************************************************)
(* existing_udf                                                            *)
(***************************************************************************)
Arg(type_) == [kind |-> "Arg", of |-> type_]
OutputTypeRule(output_type) == [kind |-> "shape_like", of |-> output_type]
ResolveName(name) == [kind |-> "resolve_name", of |-> name]

\* ['v{}'.format(i) for i in range(len(input_types))]
DefaultParameters(input_types) ==
    [i \in 1..Len(input_types) |-> "v" \o ToString(i - 1)]

udf_node_fields(name, input_types, output_type, parameters) ==
    SetItem(
        OrderedDict(
            [i \in DOMAIN zip(parameters, input_types) |->
                <<zip(parameters, input_types)[i][1],
                  Arg(zip(parameters, input_types)[i][2])>>]
            \o << <<"output_type", OutputTypeRule(output_type)>> >>,
            <<>>),
        "resolve_name", ResolveName(name))

\* the closure _translate_udf: what it reads from the enclosing call
translate_udf(name, schema) == [name |-> name, schema |-> schema]

\* existing_udf validating the parameter count only after the node kind and
\* its renderer are registered
existing_udf_late_check(st, name, input_types, output_type, schema, parameters) ==
    LET ps == IF parameters = None THEN DefaultParameters(input_types)
              ELSE parameters
        fields == udf_node_fields(name, input_types, output_type, ps)
        s1 == create_udf_node(st, name, fields)
        udf_node == Len(s1.nodes)
        s2 == add_operation(s1, udf_node, translate_udf(name, schema))
    IN IF parameters # None /\ Len(input_types) # Len(parameters)
       THEN [raised |-> "ValueError", value |-> None, st |-> s2]
       ELSE [raised |-> "", value |-> udf_node, st |-> s2]

existing_udf(st, name, input_types, output_type, schema, parameters) ==
    LET ps == IF parameters = None THEN DefaultParameters(input_types)
              ELSE parameters
    IN IF parameters # None /\ Len(input_types) # Len(parameters)
       THEN [raised |-> "ValueError", value |-> None, st |-> st]
       ELSE LET fields == udf_node_fields(name, input_types, output_type, ps)
                s1 == create_udf_node(st, name, fields)
                udf_node == Len(s1.nodes)
                s2 == add_operation(s1, udf_node, translate_udf(name, schema))
            IN [raised |-> "", value |-> udf_node, st |-> s2]

(***************************************************************************)
(* func_to_udf                                                             *)
(***************************************************************************)
replace_text(replace) == IF replace THEN " OR REPLACE " ELSE ""

schema_fragment(schema) ==
    IF schema # None /\ schema # "" THEN schema \o "." ELSE ""

\* the template, clause by clause, with its placeholders filled
template_format(replace, fragment, name, signature, return_type, func_definition, internal_name, args) ==
    << [clause |-> "CREATE FUNCTION", replace |-> replace],
       [clause |-> "name", schema_fragment |-> fragment, name |-> name,
        signature |-> signature],
       [clause |-> "RETURNS", return_type |-> return_type],
       [clause |-> "LANGUAGE", language |-> "plpythonu"],
       [clause |-> "AS", func_definition |-> func_definition,
        internal_name |-> internal_name, args |-> args] >>

\* conn.execute(formatted_sql) on a connection that accepts or rejects it
conn_execute(st, conn, formatted_sql) ==
    [raised |-> IF conn.ok THEN "" ELSE "DBError",
     st |-> [st EXCEPT !.events =
                Append(@, [call |-> "execute", sql |-> formatted_sql])]]

\* the last two statements of func_to_udf with the bind done first and the
\* statement submitted afterwards
submit_and_bind_eager(st, conn, formatted_sql, internal_name, in_types, out_type, schema, parameter_names) ==
    LET bound == existing_udf(st, internal_name, in_types, out_type, schema,
                              parameter_names)
        sent == conn_execute(bound.st, conn, formatted_sql)
    IN IF bound.raised # "" THEN bound
       ELSE IF sent.raised # ""
       THEN [raised |-> sent.raised, value |-> None, st |-> sent.st]
       ELSE [bound EXCEPT !.st = sent.st]

\* conn.execute(formatted_sql); return existing_udf(...)
submit_and_bind(st, conn, formatted_sql, internal_name, in_types, out_type, schema, parameter_names) ==
    LET sent == conn_execute(st, conn, formatted_sql)
    IN IF sent.raised # ""
       THEN [raised |-> sent.raised, value |-> None, st |-> sent.st]
       ELSE existing_udf(sent.st, internal_name, in_types, out_type,
                         schema, parameter_names)

func_to_udf(st, cat, conn, python_func, in_types, out_type, schema, replace, name) ==
    LET internal_name == IF name = None THEN func_name(python_func) ELSE name
        parameter_names == signature_parameters(python_func)
        fail(e) == [raised |-> e, value |-> None, st |-> st]
    IN IF in_types = None THEN fail("NotImplementedError")
       ELSE IF out_type = None THEN fail("NotImplementedError")
       ELSE LET pairs == zip(parameter_names, in_types)
       IN IF \E i \in DOMAIN pairs : pairs[i][2] \notin DOMAIN cat
          THEN fail("KeyError")
       ELSE IF out_type \notin DOMAIN cat THEN fail("KeyError")
       ELSE LET postgres_signature ==
                    [i \in DOMAIN pairs |-> <<pairs[i][1], cat[pairs[i][2]]>>]
                return_type == cat[out_type]
                stripped == remove_decorators(dedent(getsource(python_func)))
       IN IF stripped.raised # "" THEN fail(stripped.raised)
       ELSE LET formatted_sql ==
                    template_format(replace_text(replace),
                                    schema_fragment(schema),
                                    internal_name,
                                    postgres_signature,
                                    return_type,
                                    stripped.value,
                                    func_name(python_func),
                                    parameter_names)
       IN submit_and_bind(st, conn, formatted_sql, internal_name, in_types,
                          out_type, schema, parameter_names)

(***************************************************************************)
(* Inputs                                                                  *)
(***************************************************************************)
Func(name, decos, params, multiline, ret, indent, nbody) ==
    [name |-> name, decos |-> decos, params |-> params,
     multiline |-> multiline, ret |-> ret, indent |-> indent,
     nbody |-> nbody]

ParamPool == <<"x", "y", "z">>

\* a decorator takes one line (`@d`) or three (`@d(`, an argument, `)`)
DecoSeqs == UNION { [1..k -> {1, 3}] : k \in 0..MaxDecorators }

\* module-level functions given to remove_decorators as text
SrcFuncs ==
    { Func("f", ds, SubSeq(ParamPool, 1, n), ml, r, 0, nb) :
        ds \in DecoSeqs, n \in 0..MaxParams, ml \in BOOLEAN,
        r \in BOOLEAN, nb \in 1..MaxBody }

CommentLine == Line("comment", 0, "", <<>>, FALSE)

SourceTexts ==
    { getsource(f) : f \in SrcFuncs }
    \cup { <<CommentLine>> \o getsource(f) : f \in SrcFuncs }

\* host functions given to func_to_udf: undecorated; decorated and nested
\* (indented); parameters on their own lines; no parameters
PlainFunc == Func("f", <<>>, <<"x", "y">>, FALSE, FALSE, 0, 1)
DecoratedFunc == Func("f", <<1, 3>>, <<"x", "y">>, FALSE, TRUE, 1, 1)
MultilineFunc == Func("f", <<1>>, <<"x">>, TRUE, FALSE, 0, 1)
NoParamFunc == Func("f", <<>>, <<>>, FALSE, FALSE, 0, 1)

HostFuncs == {PlainFunc, DecoratedFunc, MultilineFunc, NoParamFunc}

Schemas == {None, "s"}
NameArgs == {None, "f_0"}
Conns == {[ok |-> TRUE], [ok |-> FALSE]}

\* func_to_udf arguments of the deployment specification
InTypes == {None, <<"Int32">>, <<"Int32", "Float">>, <<"Decimal", "Int32">>}
OutTypes == {None, "Int32", "Decimal"}

\* func_to_udf arguments of the full state machine: the declared types
\* match the two parameters of the function, or are one short
BoundInTypes == {<<"Int32">>, <<"Int32", "Float">>}

ExistingInputTypes == {<<"Int32", "String">>}
ExistingParameters == {None, <<"x">>, <<"x", "x">>, <<"x", "y">>}

(***************************************************************************)
(* State machine                                                           *)
(***************************************************************************)
Init ==
    /\ pytype_sql = pytype_sql_literal
    /\ pytype_ibistype = pytype_ibistype_literal
    /\ \E order \in DictOrders :
          ibistype_pytype = InvertDict(pytype_ibistype_literal, order, EmptyDict)
    /\ ibistype_sqltype = BuildSqlTypes(ibistype_pytype, pytype_sql_literal)
    /\ udf_name_cache = [n \in UdfNames |-> 0]
    /\ nodes = <<>>
    /\ registry = [n \in {} |-> None]
    /\ lastCall = [op |-> "import", args |-> <<>>, raised |-> "",
                   value |-> None, events |-> <<>>]

Current == RegState(udf_name_cache, nodes, registry, <<>>)

Commit(op, args, raised, value, st) ==
    /\ udf_name_cache' = st.udf_name_cache
    /\ nodes' = st.nodes
    /\ registry' = st.registry
    /\ lastCall' = [op |-> op, args |-> args, raised |-> raised,
                    value |-> value, events |-> st.events]
    /\ UNCHANGED catalog

RemoveDecorators(funcdef_source) ==
    LET r == remove_decorators(funcdef_source)
    IN Commit("remove_decorators", [funcdef_source |-> funcdef_source],
              r.raised, r.value, Current)

CreateUdfNode(name, fields) ==
    /\ Len(nodes) < MaxRegs
    /\ LET st == create_udf_node(Current, name, fields)
       IN Commit("create_udf_node", [name |-> name, fields |-> fields],
                 "", Len(st.nodes), st)

ExistingUdf(name, input_types, output_type, schema, parameters) ==
    /\ Len(nodes) < MaxRegs
    /\ LET r == existing_udf(Current, name, input_types, output_type,
                             schema, parameters)
       IN Commit("existing_udf",
                 [name |-> name, input_types |-> input_types,
                  output_type |-> output_type, schema |-> schema,
                  parameters |-> parameters],
                 r.raised, r.value, r.st)

FuncToUdf(conn, python_func, in_types, out_type, schema, replace, name) ==
    /\ Len(nodes) < MaxRegs
    /\ LET r == func_to_udf(Current, ibistype_sqltype, conn, python_func,
                            in_types, out_type, schema, replace, name)
       IN Commit("func_to_udf",
                 [conn |-> conn, python_func |-> python_func,
                  in_types |-> in_types, out_type |-> out_type,
                  schema |-> schema, replace |-> replace, name |-> name],
                 r.raised, r.value, r.st)

Next ==
    \/ RemoveDecorators(dedent(getsource(DecoratedFunc)))
    \/ \E name \in UdfNames : CreateUdfNode(name, <<>>)
    \/ \E name \in UdfNames, its \in ExistingInputTypes, s \in Schemas,
          ps \in ExistingParameters :
          ExistingUdf(name, its, "Int32", s, ps)
    \/ \E conn \in Conns, its \in BoundInTypes, name \in NameArgs :
          FuncToUdf(conn, DecoratedFunc, its, "Int32", None, FALSE, name)

Spec == Init /\ [][Next]_vars

\* the source transformer alone, over every text of SourceTexts
NextSrc == \E src \in SourceTexts : RemoveDecorators(src)

SpecSrc == Init /\ [][NextSrc]_vars

\* one deployment against the registry as it is at import, over every
\* combination of the arguments of func_to_udf
NextDeploy ==
    \E conn \in Conns, f \in HostFuncs, its \in InTypes, ot \in OutTypes,
       s \in Schemas, replace \in BOOLEAN, name \in NameArgs :
       nodes = <<>> /\ FuncToUdf(conn, f, its, ot, s, replace, name)

SpecDeploy == Init /\ [][NextDeploy]_vars

(***************************************************************************)
(* Properties                                                              *)
(***************************************************************************)
IsCall(op) == lastCall.op = op

DecoratorKinds == {"deco", "decoOpen", "decoArg", "decoClose"}

\* the text from its `def` line to its end
FromDefLine(src) ==
    LET d == CHOOSE i \in DOMAIN src :
                 /\ src[i].kind \in {"def", "defOpen"}
                 /\ \A j \in 1..(i - 1) : src[j].kind \notin {"def", "defOpen"}
    IN SubSeq(src, d, Len(src))

\* C1: remove_decorators returns exactly the lines of its input from the
\* `def` line of the function to the end of the text, unchanged, whatever
\* the decorators, the layout of the parameter list and the number of
\* parameters.
C1_StripExact ==
    IsCall("remove_decorators") =>
        /\ lastCall.raised = ""
        /\ lastCall.value = FromDefLine(lastCall.args.funcdef_source)

\* C6: on a text without decorators remove_decorators returns its input
\* unchanged.
C6_IdentityUndecorated ==
    ( /\ IsCall("remove_decorators")
      /\ \A i \in DOMAIN lastCall.args.funcdef_source :
            lastCall.args.funcdef_source[i].kind \notin DecoratorKinds )
    => /\ lastCall.raised = ""
       /\ lastCall.value = lastCall.args.funcdef_source

\* C5: the catalog is total: every abstract type of the fixed enumeration
\* has a non-empty SQL type name in ibistype_sqltype, and every host
\* primitive has an abstract type in pytype_ibistype.
C5_CatalogTotal ==
    /\ \A t \in AbstractTypes :
          /\ t \in DOMAIN ibistype_sqltype
          /\ ibistype_sqltype[t] # ""
    /\ \A h \in HostTypes :
          /\ h \in DOMAIN pytype_ibistype
          /\ pytype_ibistype[h] \in AbstractTypes

\* the catalog tables are the ones built at import
CatalogAsImported ==
    /\ pytype_sql = pytype_sql_literal
    /\ pytype_ibistype = pytype_ibistype_literal
    /\ \E order \in DictOrders :
          ibistype_pytype = InvertDict(pytype_ibistype_literal, order, EmptyDict)
    /\ ibistype_sqltype = BuildSqlTypes(ibistype_pytype, pytype_sql_literal)

\* C10: no two host primitives share an abstract type; for every host
\* primitive the SQL name reached through its abstract type is the SQL name
\* mapped for it directly, and inverting the host-to-abstract map gives it
\* back; the tables stay as built at import.
C10_CatalogUnique ==
    /\ \A h1, h2 \in HostTypes :
          pytype_ibistype[h1] = pytype_ibistype[h2] => h1 = h2
    /\ \A h \in HostTypes :
          /\ ibistype_sqltype[pytype_ibistype[h]] = pytype_sql[h]
          /\ ibistype_pytype[pytype_ibistype[h]] = h
    /\ CatalogAsImported

Executes(evs) == {i \in DOMAIN evs : evs[i].call = "execute"}

\* C2: a func_to_udf call whose host function declares a number of
\* parameters other than len(in_types) fails, and conn.execute has not been
\* called when it fails.
C2_MismatchBeforeExecute ==
    ( /\ IsCall("func_to_udf")
      /\ lastCall.args.in_types # None
      /\ Len(lastCall.args.python_func.params) # Len(lastCall.args.in_types) )
    => /\ lastCall.raised # ""
       /\ Executes(lastCall.events) = {}

\* C3: an existing_udf call with explicit parameter names whose count is
\* not len(input_types) raises the length-mismatch error and leaves the
\* name counters, the node kinds and the translation table as they were.
C3_MismatchNoSideEffect ==
    [][ ( /\ lastCall'.op = "existing_udf"
          /\ lastCall'.args.parameters # None
          /\ Len(lastCall'.args.parameters) # Len(lastCall'.args.input_types) )
        => /\ lastCall'.raised = "ValueError"
           /\ lastCall'.events = <<>>
           /\ UNCHANGED <<udf_name_cache, nodes, registry>> ]_vars

C3_Witness ==
    /\ IsCall("existing_udf")
    /\ lastCall.args.parameters # None
    /\ Len(lastCall.args.parameters) # Len(lastCall.args.input_types)
    /\ lastCall.raised = "ValueError"
    /\ Len(nodes) >= 1
    /\ DOMAIN registry # {}

\* number of node kinds created under the logical name of node i before it
Earlier(i) ==
    Cardinality({j \in 1..(i - 1) : nodes[j].name = nodes[i].name})

C4_Identities ==
    /\ \A i \in DOMAIN nodes :
          nodes[i].external_name =
              nodes[i].name \o "_" \o ToString(Earlier(i))
    /\ \A i, j \in DOMAIN nodes :
          i # j => nodes[i].external_name # nodes[j].external_name
    /\ \A n \in DOMAIN registry :
          /\ n \in DOMAIN nodes
          /\ registry[n].name = nodes[n].name

C4_Kept ==
    /\ \A i \in DOMAIN nodes :
          i \in DOMAIN nodes' /\ nodes'[i] = nodes[i]
    /\ \A n \in DOMAIN registry :
          n \in DOMAIN registry' /\ registry'[n] = registry[n]

\* C4: after any sequence of registrations the identities of the node kinds
\* are pairwise distinct, the k-th kind created under logical name n (from 0)
\* is identified n_k, and a registration leaves every earlier node kind and
\* its renderer in place.
C4_DistinctIdentities == [][C4_Identities' /\ C4_Kept]_vars

C4_Witness ==
    \E i, j \in DOMAIN nodes :
        /\ i < j
        /\ nodes[i].name = nodes[j].name
        /\ {i, j} \subseteq DOMAIN registry
        /\ registry[i] # registry[j]

\* C7: when conn.execute fails in func_to_udf the error reaches the caller,
\* conn.execute was called once, and nothing was registered; a successful
\* call made exactly one conn.execute call, before the node registration.
C7_FailureBeforeBind ==
    [][ lastCall'.op = "func_to_udf" =>
          LET evs == lastCall'.events
          IN /\ ( Executes(evs) # {} /\ ~lastCall'.args.conn.ok )
                => /\ lastCall'.raised = "DBError"
                   /\ Len(evs) = 1
                   /\ UNCHANGED <<udf_name_cache, nodes, registry>>
             /\ lastCall'.raised = ""
                => /\ Executes(evs) = {1}
                   /\ Len(evs) = 3
                   /\ evs[2].call = "create_udf_node"
                   /\ evs[3].call = "add_operation"
                   /\ Len(nodes') = Len(nodes) + 1 ]_vars

C7_Witness ==
    /\ IsCall("func_to_udf")
    /\ lastCall.raised = "DBError"
    /\ Executes(lastCall.events) = {1}
    /\ Len(nodes) >= 1

\* the argument fields of a node kind, in order
ArgFields(node) == SelectSeq(node.fields, LAMBDA kv : kv[2].kind = "Arg")

CallInputTypes ==
    IF IsCall("existing_udf") THEN lastCall.args.input_types
    ELSE lastCall.args.in_types

\* C9: the node kind created by a successful existing_udf or func_to_udf
\* call has exactly len(input_types) argument fields, in the order of
\* input_types and with pairwise distinct names, plus the result-type rule;
\* without explicit names the fields are v0, v1, ...
C9_UniqueParameterNames ==
    ( (IsCall("existing_udf") \/ IsCall("func_to_udf")) /\ lastCall.raised = "" )
    => LET node == nodes[lastCall.value]
           fs == ArgFields(node)
       IN /\ Len(fs) = Len(CallInputTypes)
          /\ \A i \in DOMAIN fs : fs[i][2] = Arg(CallInputTypes[i])
          /\ \A i, j \in DOMAIN fs : i # j => fs[i][1] # fs[j][1]
          /\ \E i \in DOMAIN node.fields : node.fields[i][1] = "output_type"
          /\ ( IsCall("existing_udf") /\ lastCall.args.parameters = None )
             => \A i \in DOMAIN fs : fs[i][1] = "v" \o ToString(i - 1)

\* C8: the statement given to conn.execute holds, in order: the CREATE
\* FUNCTION header, with OR REPLACE exactly when replace is set; the schema
\* qualifier when a schema is given, the deployed name and the `param TYPE`
\* list; the RETURNS clause with the SQL name of out_type; the plpythonu
\* language clause; the body, made of the dedented source from its `def`
\* line on and a return line calling the host function by its own name with
\* its parameter names.
C8_StatementShape ==
    ( IsCall("func_to_udf") /\ Executes(lastCall.events) # {} )
    => LET a == lastCall.args
           f == a.python_func
           sql == lastCall.events[1].sql
           n == IF Len(f.params) < Len(a.in_types)
                THEN Len(f.params) ELSE Len(a.in_types)
       IN /\ Len(sql) = 5
          /\ sql[1].clause = "CREATE FUNCTION"
          /\ (sql[1].replace = " OR REPLACE ") <=> a.replace
          /\ (sql[1].replace = "") <=> ~a.replace
          /\ sql[2].clause = "name"
          /\ sql[2].schema_fragment =
                (IF a.schema = None THEN "" ELSE a.schema \o ".")
          /\ sql[2].name = (IF a.name = None THEN f.name ELSE a.name)
          /\ sql[2].signature =
                [i \in 1..n |-> <<f.params[i], ibistype_sqltype[a.in_types[i]]>>]
          /\ sql[3].clause = "RETURNS"
          /\ sql[3].return_type = ibistype_sqltype[a.out_type]
          /\ sql[4].clause = "LANGUAGE" /\ sql[4].language = "plpythonu"
          /\ sql[5].clause = "AS"
          /\ sql[5].func_definition = FromDefLine(dedent(getsource(f)))
          /\ sql[5].internal_name = f.name
          /\ sql[5].args = f.params

====
